---- MODULE Spec2Model ----
(***************************************************************************)
(* Lifecycle of the Collector of service/application.go: execute (the      *)
(* primary flow), setupConfigurationComponents, the watch goroutine with   *)
(* reloadService, runAndWaitForShutdownEvent and Shutdown.                 *)
(*                                                                         *)
(* The primary flow and the watch goroutine are the two processes "main"   *)
(* and "watch".  Only one watch goroutine can act at a time: a reload is   *)
(* started by the goroutine that the previous successful setup spawned,    *)
(* and that goroutine does nothing more once it has spawned its successor. *)
(* Every access to the shared field col.service is a step of its own, so   *)
(* the unsynchronised reads of execute interleave with reloadService.      *)
(* The collaborators (provider, service, telemetry) are external: each of  *)
(* their calls returns nil or an error, chosen freely.                     *)
(***************************************************************************)
EXTENDS Naturals, Integers, Sequences, FiniteSets, TLC

(* ---------------------------- bounds ----------------------------------- *)
\* service instances ever constructed (the first one plus the reloads)
MaxInstances == 2
\* calls of Collector.Shutdown made by the host
MaxShutdownCalls == 2
\* OS termination signals delivered to the process
MaxSignals == 1
\* components that report a fatal error on the async error channel
MaxAsyncErrors == 2

(* ---------------------------- State ------------------------------------ *)
Starting == 0
Running == 1
Closing == 2
Closed == 3

\* make(chan State, Closed): one slot short of the number of states
CapOfClosed == Closed

\* make(chan State, Closed+1)
StateChannelCap == Closed + 1

Procs == {"main", "watch"}
Instances == 1..MaxInstances
\* the nil *service
NilService == 0

VARIABLES
  pc,                \* position of the primary flow and of the watch goroutine
  stateChannel,      \* values buffered in col.stateChannel (nothing receives from it)
  stateClosed,       \* number of close(col.stateChannel) executed
  published,         \* every value sent on col.stateChannel so far, in order
  service,           \* col.service: NilService or an instance
  newSvc,            \* the local `service` of setupConfigurationComponents, per flow
  retiring,          \* the local retiringService of reloadService
  callee,            \* the receiver execute read for its Shutdown call
  status,            \* per instance: "none", "built", "started", "startFailed"
  sdCalls,           \* per instance: Shutdown invocations
  sdRets,            \* per instance: Shutdown returns
  prior,             \* per instance: the instance the reload that built it retired
  nextId,            \* next instance newService constructs
  nilCall,           \* Shutdown was invoked through a nil col.service
  closeable,         \* parserProvider implements Closeable
  watchable,         \* parserProvider implements Watchable
  asyncErrorChannel, \* "nil" or "open" (unbuffered)
  blockedSenders,    \* senders blocked in a send on asyncErrorChannel
  asyncSends,        \* sends attempted on asyncErrorChannel
  asyncReceived,     \* values received from asyncErrorChannel
  signalsChannel,    \* "nil", "empty" or "full" (capacity 1)
  sigCount,          \* signals delivered to the process after signal.Notify
  stopTestChan,      \* "nil", "open" or "closed"
  stopCalls,         \* calls of Shutdown()
  stopEscaped,       \* a panic left Shutdown()
  trigger,           \* the case the select took: "none", "asyncError", "signal", "stop"
  firstFired,        \* the source that fired first in this run
  errs,              \* the local errs of execute
  failedSteps,       \* shutdown steps that returned an error
  seqSteps,          \* shutdown steps invoked by execute, in order
  sawService,        \* execute found col.service non-nil at its check
  retval,            \* the error(s) execute returned
  reloadErr,         \* the error reloadService returned with what it wraps, <<>> if none
  ran,               \* per flow: the steps its current call of setupConfigurationComponents invoked
  failedAt,          \* per flow: the step of that call that returned an error, "" if none
  telemetry,         \* applicationTelemetry: "off", "on" (init succeeded) or "shutdown"
  sentinelRets,      \* returns of WatchForUpdate that are ErrSessionClosed
  otherRets,         \* returns of WatchForUpdate that are not
  reloadCalls        \* calls of reloadService

vars == <<pc, stateChannel, stateClosed, published, service, newSvc, retiring, callee,
          status, sdCalls, sdRets, prior, nextId, nilCall, closeable, watchable,
          asyncErrorChannel, blockedSenders, asyncSends, asyncReceived,
          signalsChannel, sigCount, stopTestChan, stopCalls,
          stopEscaped, trigger, firstFired, errs, failedSteps, seqSteps,
          sawService, retval, reloadErr, ran, failedAt, telemetry,
          sentinelRets, otherRets, reloadCalls>>

chanVars == <<stateChannel, stateClosed, published>>
svcVars == <<service, newSvc, retiring, callee, status, sdCalls, sdRets, prior, nextId, nilCall>>
provVars == <<closeable, watchable>>
asyncVars == <<asyncErrorChannel, blockedSenders, asyncSends, asyncReceived>>
sigVars == <<signalsChannel, sigCount>>
stopVars == <<stopTestChan, stopCalls, stopEscaped>>
trigVars == <<trigger, firstFired>>
seqVars == <<errs, failedSteps, seqSteps, sawService>>
retVars == <<retval, reloadErr>>
setupGhost == <<ran, failedAt>>
watchGhost == <<sentinelRets, otherRets, reloadCalls>>

\* the state New leaves, on entry to execute (RunE has set col.logger)
Init ==
  /\ pc = [p \in Procs |-> IF p = "main" THEN "execute" ELSE "none"]
  /\ stateChannel = <<>>
  /\ stateClosed = 0
  /\ published = <<>>
  /\ service = NilService
  /\ newSvc = [p \in Procs |-> NilService]
  /\ retiring = NilService
  /\ callee = NilService
  /\ status = [i \in Instances |-> "none"]
  /\ sdCalls = [i \in Instances |-> 0]
  /\ sdRets = [i \in Instances |-> 0]
  /\ prior = [i \in Instances |-> NilService]
  /\ nextId = 1
  /\ nilCall = FALSE
  /\ closeable \in BOOLEAN
  /\ watchable \in BOOLEAN
  /\ asyncErrorChannel = "nil"
  /\ blockedSenders = 0
  /\ asyncSends = 0
  /\ asyncReceived = 0
  /\ signalsChannel = "nil"
  /\ sigCount = 0
  /\ stopTestChan = "nil"
  /\ stopCalls = 0
  /\ stopEscaped = FALSE
  /\ trigger = "none"
  /\ firstFired = "none"
  /\ errs = <<>>
  /\ failedSteps = {}
  /\ seqSteps = <<>>
  /\ sawService = FALSE
  /\ retval = <<>>
  /\ reloadErr = <<>>
  /\ ran = [p \in Procs |-> <<>>]
  /\ failedAt = [p \in Procs |-> ""]
  /\ telemetry = "off"
  /\ sentinelRets = 0
  /\ otherRets = 0
  /\ reloadCalls = 0

\* a panic of the primary flow ends the process
Alive == pc["main"] # "panicked"

(* ------------------------- helpers ------------------------------------- *)
\* ch <- v on the buffered state channel
Send(ch, v) == Append(ch, v)

\* a send on the state channel proceeds only while the buffer has room
CanSend(ch) == Len(ch) < StateChannelCap

\* errs = []error{...}: the new error replaces the ones collected before
OverwriteErr(es, e) == <<e>>

\* errs = append(errs, ...)
AppendErr(es, e) == Append(es, e)

\* consumererror.Combine: nil for no errors, else the aggregate of all of them
Combine(es) == es

\* the source that fired first keeps that place
NoteFired(src) == firstFired' = IF firstFired = "none" THEN src ELSE firstFired

Goto(p, loc) == pc' = [pc EXCEPT ![p] = loc]

(* --------------- execute: setup (lines 276-297) ------------------------ *)
\* col.stateChannel <- Starting; col.asyncErrorChannel = make(chan error)
Execute ==
  /\ pc["main"] = "execute"
  /\ CanSend(stateChannel)
  /\ stateChannel' = Send(stateChannel, Starting)
  /\ published' = Send(published, Starting)
  /\ asyncErrorChannel' = "open"
  /\ Goto("main", "setupTelemetry")
  /\ UNCHANGED <<stateClosed, svcVars, provVars, blockedSenders, asyncSends,
                 asyncReceived, sigVars, stopVars, trigVars, seqVars, retVars>>
  /\ UNCHANGED <<setupGhost, telemetry, watchGhost>>

\* a setup error that is not returned: execute carries on to the wait
IgnoreSetupError == "runAndWait"

\* a setup error after which execute runs the shutdown sequence
SetupErrorTeardown == "Close"

\* where execute goes when a setup step returns an error: it returns the error
SetupErrorExit == "setupFailed"

\* err := col.setupTelemetry(...); if err != nil { return err }
SetupTelemetry ==
  /\ pc["main"] = "setupTelemetry"
  /\ \E ok \in BOOLEAN :
       IF ok
       THEN /\ Goto("main", "Get")
            /\ telemetry' = "on"
            /\ UNCHANGED retval
       ELSE /\ Goto("main", SetupErrorExit)
            /\ retval' = <<"failed to initialize telemetry">>
            /\ UNCHANGED telemetry
  /\ UNCHANGED <<chanVars, svcVars, provVars, asyncVars, sigVars, stopVars,
                 trigVars, seqVars, reloadErr>>
  /\ UNCHANGED <<setupGhost, watchGhost>>

(* --------- setupConfigurationComponents (lines 219-274) ---------------- *)
\* a step of setupConfigurationComponents returned an error: execute returns
\* it (lines 294-297), reloadService wraps and returns it (lines 361-363)
SetupFail(p, msg) ==
  IF p = "main"
  THEN /\ Goto("main", SetupErrorExit)
       /\ retval' = <<msg>>
       /\ UNCHANGED reloadErr
  ELSE /\ Goto("watch", "reloadFailed")
       /\ reloadErr' = <<"failed to setup configuration components", msg>>
       /\ UNCHANGED retval

\* a step without effect on the collector: it succeeds and the flow moves on,
\* or it fails and the function returns
SetupStep(p, here, next, msg) ==
  /\ Alive
  /\ pc[p] = here
  /\ ran' = [ran EXCEPT ![p] = IF here = "Get" THEN <<here>> ELSE Append(@, here)]
  /\ \E ok \in BOOLEAN :
       /\ failedAt' = [failedAt EXCEPT ![p] = IF ok THEN "" ELSE here]
       /\ IF ok
          THEN Goto(p, next) /\ UNCHANGED retVars
          ELSE SetupFail(p, msg)
  /\ UNCHANGED <<chanVars, svcVars, provVars, asyncVars, sigVars, stopVars,
                 trigVars, seqVars>>
  /\ UNCHANGED <<telemetry, watchGhost>>

\* cp, err := col.parserProvider.Get()
Get(p) == SetupStep(p, "Get", "Load", "cannot load configuration's parser")

\* a Load whose error is dropped: the flow goes on to Validate
LoadIgnoresError(p) ==
  /\ Alive
  /\ pc[p] = "Load"
  /\ ran' = [ran EXCEPT ![p] = Append(@, "Load")]
  /\ \E ok \in BOOLEAN : failedAt' = [failedAt EXCEPT ![p] = IF ok THEN "" ELSE "Load"]
  /\ Goto(p, "Validate")
  /\ UNCHANGED <<chanVars, svcVars, provVars, asyncVars, sigVars, stopVars,
                 trigVars, seqVars, retVars, telemetry, watchGhost>>

\* cfg, err := configloader.Load(cp, col.factories)
Load(p) == SetupStep(p, "Load", "Validate", "cannot load configuration")

\* cfg.Validate()
Validate(p) == SetupStep(p, "Validate", "newService", "invalid configuration")

\* service, err := newService(...)
NewService(p) ==
  /\ Alive
  /\ pc[p] = "newService"
  /\ nextId <= MaxInstances
  /\ ran' = [ran EXCEPT ![p] = Append(@, "newService")]
  /\ \E ok \in BOOLEAN :
       /\ failedAt' = [failedAt EXCEPT ![p] = IF ok THEN "" ELSE "newService"]
       /\ IF ok
          THEN /\ Goto(p, "Start")
               /\ newSvc' = [newSvc EXCEPT ![p] = nextId]
               /\ status' = [status EXCEPT ![nextId] = "built"]
               /\ prior' = [prior EXCEPT ![nextId] = IF p = "watch" THEN retiring ELSE NilService]
               /\ nextId' = nextId + 1
               /\ UNCHANGED retVars
          ELSE /\ SetupFail(p, "newService failed")
               /\ UNCHANGED <<newSvc, status, prior, nextId>>
  /\ UNCHANGED <<chanVars, service, retiring, callee, sdCalls, sdRets, nilCall,
                 provVars, asyncVars, sigVars, stopVars, trigVars, seqVars>>
  /\ UNCHANGED <<telemetry, watchGhost>>

\* err = service.Start(ctx)
Start(p) ==
  /\ Alive
  /\ pc[p] = "Start"
  /\ ran' = [ran EXCEPT ![p] = Append(@, "Start")]
  /\ \E ok \in BOOLEAN :
       /\ failedAt' = [failedAt EXCEPT ![p] = IF ok THEN "" ELSE "Start"]
       /\ IF ok
          THEN /\ Goto(p, "assign")
               /\ status' = [status EXCEPT ![newSvc[p]] = "started"]
               /\ UNCHANGED retVars
          ELSE /\ SetupFail(p, "service start failed")
               /\ status' = [status EXCEPT ![newSvc[p]] = "startFailed"]
  /\ UNCHANGED <<chanVars, service, newSvc, retiring, callee, sdCalls, sdRets,
                 prior, nextId, nilCall, provVars, asyncVars, sigVars, stopVars,
                 trigVars, seqVars>>
  /\ UNCHANGED <<telemetry, watchGhost>>

\* col.service = service; a Watchable provider gets a new watch goroutine;
\* return nil: execute goes on to runAndWaitForShutdownEvent, the goroutine
\* that ran reloadService ends
Assign(p) ==
  /\ Alive
  /\ pc[p] = "assign"
  /\ service' = newSvc[p]
  /\ pc' = [q \in Procs |->
              IF q = "main"
              THEN (IF p = "main" THEN "runAndWait" ELSE pc["main"])
              ELSE (IF watchable THEN "WatchForUpdate" ELSE pc["watch"])]
  /\ UNCHANGED <<chanVars, newSvc, retiring, callee, status, sdCalls, sdRets,
                 prior, nextId, nilCall, provVars, asyncVars, sigVars, stopVars,
                 trigVars, seqVars, retVars>>
  /\ UNCHANGED <<setupGhost, telemetry, watchGhost>>

(* ------- runAndWaitForShutdownEvent (lines 196-215) -------------------- *)
\* signal.Notify on a new channel of capacity 1; col.stopTestChan = make(...)
RunAndWait ==
  /\ pc["main"] = "runAndWait"
  /\ signalsChannel' = "empty"
  /\ stopTestChan' = "open"
  /\ Goto("main", "Running")
  /\ UNCHANGED <<chanVars, svcVars, provVars, asyncVars, sigCount, stopCalls,
                 stopEscaped, trigVars, seqVars, retVars>>
  /\ UNCHANGED <<setupGhost, telemetry, watchGhost>>

\* col.stateChannel <- s, then on to the next statement
Publish(here, s, next) ==
  /\ pc["main"] = here
  /\ CanSend(stateChannel)
  /\ stateChannel' = Send(stateChannel, s)
  /\ published' = Send(published, s)
  /\ Goto("main", next)
  /\ UNCHANGED <<stateClosed, svcVars, provVars, asyncVars, sigVars, stopVars,
                 trigVars, seqVars, retVars>>
  /\ UNCHANGED <<setupGhost, telemetry, watchGhost>>

\* col.stateChannel <- Running
PublishRunning == Publish("Running", Running, "select")

\* a wait that publishes Running and waits again after a case was taken
WaitAgain == "Running"

\* where the primary flow goes once a case of the select was taken
AfterSelect == "Closing"

\* a receive that drains the channel: every blocked sender hands its error over
SelectAsyncErrorDrains ==
  /\ pc["main"] = "select"
  /\ blockedSenders > 0
  /\ blockedSenders' = 0
  /\ asyncReceived' = asyncReceived + blockedSenders
  /\ trigger' = "asyncError"
  /\ Goto("main", AfterSelect)
  /\ UNCHANGED <<chanVars, svcVars, provVars, asyncErrorChannel, asyncSends,
                 sigVars, stopVars, firstFired, seqVars, retVars>>
  /\ UNCHANGED <<setupGhost, telemetry, watchGhost>>

\* case err := <-col.asyncErrorChannel: a blocked sender hands its error over
SelectAsyncError ==
  /\ pc["main"] = "select"
  /\ blockedSenders > 0
  /\ blockedSenders' = blockedSenders - 1
  /\ asyncReceived' = asyncReceived + 1
  /\ trigger' = "asyncError"
  /\ Goto("main", AfterSelect)
  /\ UNCHANGED <<chanVars, svcVars, provVars, asyncErrorChannel, asyncSends,
                 sigVars, stopVars, firstFired, seqVars, retVars>>
  /\ UNCHANGED <<setupGhost, telemetry, watchGhost>>

\* case s := <-col.signalsChannel
SelectSignal ==
  /\ pc["main"] = "select"
  /\ signalsChannel = "full"
  /\ signalsChannel' = "empty"
  /\ trigger' = "signal"
  /\ Goto("main", AfterSelect)
  /\ UNCHANGED <<chanVars, svcVars, provVars, asyncVars, sigCount, stopVars,
                 firstFired, seqVars, retVars>>
  /\ UNCHANGED <<setupGhost, telemetry, watchGhost>>

\* case <-col.stopTestChan: a receive from a closed channel proceeds
SelectStop ==
  /\ pc["main"] = "select"
  /\ stopTestChan = "closed"
  /\ trigger' = "stop"
  /\ Goto("main", AfterSelect)
  /\ UNCHANGED <<chanVars, svcVars, provVars, asyncVars, sigVars, stopVars,
                 firstFired, seqVars, retVars>>
  /\ UNCHANGED <<setupGhost, telemetry, watchGhost>>

\* col.stateChannel <- Closing
PublishClosing == Publish("Closing", Closing, "Close")

(* ------------- execute: shutdown sequence (lines 302-330) -------------- *)
\* a step that failed is recorded and the sequence goes on
Record(es, step, ok) == IF ok THEN es ELSE AppendErr(es, step)

\* a provider Close whose error ends the sequence: execute returns it at once
CloseProviderFatal ==
  /\ pc["main"] = "Close"
  /\ IF closeable
     THEN \E ok \in BOOLEAN :
            /\ errs' = Record(errs, "failed to close config", ok)
            /\ failedSteps' = IF ok THEN failedSteps ELSE failedSteps \cup {"failed to close config"}
            /\ seqSteps' = Append(seqSteps, "Close")
            /\ IF ok
               THEN Goto("main", "checkService") /\ UNCHANGED retval
               ELSE Goto("main", "done") /\ retval' = Combine(errs')
     ELSE /\ UNCHANGED <<errs, failedSteps, seqSteps, retval>>
          /\ Goto("main", "checkService")
  /\ UNCHANGED <<chanVars, svcVars, provVars, asyncVars, sigVars, stopVars,
                 trigVars, sawService, reloadErr>>
  /\ UNCHANGED <<setupGhost, telemetry, watchGhost>>

\* if closable, ok := col.parserProvider.(Closeable); ok { closable.Close(ctx) }
CloseProvider ==
  /\ pc["main"] = "Close"
  /\ IF closeable
     THEN \E ok \in BOOLEAN :
            /\ errs' = Record(errs, "failed to close config", ok)
            /\ failedSteps' = IF ok THEN failedSteps ELSE failedSteps \cup {"failed to close config"}
            /\ seqSteps' = Append(seqSteps, "Close")
     ELSE UNCHANGED <<errs, failedSteps, seqSteps>>
  /\ Goto("main", "checkService")
  /\ UNCHANGED <<chanVars, svcVars, provVars, asyncVars, sigVars, stopVars,
                 trigVars, sawService, retVars>>
  /\ UNCHANGED <<setupGhost, telemetry, watchGhost>>

\* if col.service != nil
CheckService ==
  /\ pc["main"] = "checkService"
  /\ sawService' = (service # NilService)
  /\ Goto("main", IF service # NilService THEN "Shutdown" ELSE "telemetryShutdown")
  /\ UNCHANGED <<chanVars, svcVars, provVars, asyncVars, sigVars, stopVars,
                 trigVars, errs, failedSteps, seqSteps, retVars>>
  /\ UNCHANGED <<setupGhost, telemetry, watchGhost>>

\* col.service.Shutdown(ctx): col.service is read again and Shutdown entered
CallShutdown ==
  /\ pc["main"] = "Shutdown"
  /\ callee' = service
  /\ seqSteps' = Append(seqSteps, "Shutdown")
  /\ IF service = NilService
     THEN /\ nilCall' = TRUE
          /\ UNCHANGED sdCalls
     ELSE /\ sdCalls' = [sdCalls EXCEPT ![service] = @ + 1]
          /\ UNCHANGED nilCall
  /\ Goto("main", "ShutdownRet")
  /\ UNCHANGED <<chanVars, service, newSvc, retiring, status, sdRets, prior,
                 nextId, provVars, asyncVars, sigVars, stopVars, trigVars, errs,
                 failedSteps, sawService, retVars>>
  /\ UNCHANGED <<setupGhost, telemetry, watchGhost>>

\* Shutdown returns to execute: nil or an error
ShutdownReturn ==
  /\ pc["main"] = "ShutdownRet"
  /\ callee # NilService
  /\ sdRets' = [sdRets EXCEPT ![callee] = @ + 1]
  /\ \E ok \in BOOLEAN :
       /\ errs' = Record(errs, "failed to shutdown service", ok)
       /\ failedSteps' = IF ok THEN failedSteps ELSE failedSteps \cup {"failed to shutdown service"}
  /\ Goto("main", "telemetryShutdown")
  /\ UNCHANGED <<chanVars, service, newSvc, retiring, callee, status, sdCalls,
                 prior, nextId, nilCall, provVars, asyncVars, sigVars, stopVars,
                 trigVars, seqSteps, sawService, retVars>>
  /\ UNCHANGED <<setupGhost, telemetry, watchGhost>>

\* Shutdown was entered with a nil receiver: its body is not part of this
\* file, so it may fault on its first field access (the panic ends the
\* process) or return, nil or an error
NilShutdownOutcome ==
  /\ pc["main"] = "ShutdownRet"
  /\ callee = NilService
  /\ \E out \in {"panic", "nil", "error"} :
       /\ Goto("main", IF out = "panic" THEN "panicked" ELSE "telemetryShutdown")
       /\ errs' = Record(errs, "failed to shutdown service", out # "error")
       /\ failedSteps' = IF out = "error"
                         THEN failedSteps \cup {"failed to shutdown service"}
                         ELSE failedSteps
  /\ UNCHANGED <<chanVars, svcVars, provVars, asyncVars, sigVars, stopVars,
                 trigVars, seqSteps, sawService, retVars>>
  /\ UNCHANGED <<setupGhost, telemetry, watchGhost>>

\* a telemetry shutdown whose error is returned at once, like a setup error
TelemetryShutdownFatal ==
  /\ pc["main"] = "telemetryShutdown"
  /\ seqSteps' = Append(seqSteps, "telemetryShutdown")
  /\ telemetry' = "shutdown"
  /\ \E ok \in BOOLEAN :
       /\ errs' = Record(errs, "failed to shutdown application telemetry", ok)
       /\ failedSteps' = IF ok THEN failedSteps
                         ELSE failedSteps \cup {"failed to shutdown application telemetry"}
       /\ IF ok
          THEN Goto("main", "Closed") /\ UNCHANGED retval
          ELSE Goto("main", "done") /\ retval' = Combine(errs')
  /\ UNCHANGED <<chanVars, svcVars, provVars, asyncVars, sigVars, stopVars,
                 trigVars, sawService, reloadErr>>
  /\ UNCHANGED <<setupGhost, watchGhost>>

\* applicationTelemetry.shutdown()
TelemetryShutdown ==
  /\ pc["main"] = "telemetryShutdown"
  /\ \E ok \in BOOLEAN :
       /\ errs' = Record(errs, "failed to shutdown application telemetry", ok)
       /\ failedSteps' = IF ok THEN failedSteps
                         ELSE failedSteps \cup {"failed to shutdown application telemetry"}
  /\ seqSteps' = Append(seqSteps, "telemetryShutdown")
  /\ telemetry' = "shutdown"
  /\ Goto("main", "Closed")
  /\ UNCHANGED <<chanVars, svcVars, provVars, asyncVars, sigVars, stopVars,
                 trigVars, sawService, retVars>>
  /\ UNCHANGED <<setupGhost, watchGhost>>

\* Closing sent a second time where Closed belongs
PublishClosingAgain == Publish("Closed", Closing, "closeChannel")

\* col.stateChannel <- Closed
PublishClosed == Publish("Closed", Closed, "closeChannel")

\* close(col.stateChannel); return consumererror.Combine(errs)
CloseStateChannel ==
  /\ pc["main"] = "closeChannel"
  /\ stateClosed' = stateClosed + 1
  /\ retval' = Combine(errs)
  /\ Goto("main", "done")
  /\ UNCHANGED <<stateChannel, published, svcVars, provVars, asyncVars, sigVars,
                 stopVars, trigVars, seqVars, reloadErr>>
  /\ UNCHANGED <<setupGhost, telemetry, watchGhost>>

(* --------- the watch goroutine (lines 258-270) ------------------------- *)
\* what WatchForUpdate can return: the sentinel, an error wrapping it,
\* another error, or nil
WatchResults == {"ErrSessionClosed", "wrapped ErrSessionClosed", "other error", "nil"}

\* the returns that are the session-closed condition
SessionClosedResults == {"ErrSessionClosed", "wrapped ErrSessionClosed"}

\* a watch goroutine that takes every return for a reason to reload
NeverSessionClosed(err) == FALSE

\* errors.Is(err, configsource.ErrSessionClosed): err or an error it wraps
\* is the sentinel
IsSessionClosed(err) == err \in {"ErrSessionClosed", "wrapped ErrSessionClosed"}

\* watchable.WatchForUpdate() returns: on ErrSessionClosed the goroutine
\* ends, on anything else it calls reloadService
WatchReturn ==
  /\ Alive
  /\ pc["watch"] = "WatchForUpdate"
  /\ \E err \in WatchResults :
       /\ err \notin SessionClosedResults => nextId <= MaxInstances
       /\ sentinelRets' = IF err \in SessionClosedResults THEN sentinelRets + 1 ELSE sentinelRets
       /\ otherRets' = IF err \in SessionClosedResults THEN otherRets ELSE otherRets + 1
       /\ IF IsSessionClosed(err)
          THEN Goto("watch", "exited")
          ELSE Goto("watch", "reload")
  /\ UNCHANGED <<chanVars, svcVars, provVars, asyncVars, sigVars, stopVars,
                 trigVars, seqVars, retVars>>
  /\ UNCHANGED <<setupGhost, telemetry, reloadCalls>>

(* --------------- reloadService (lines 346-366) ------------------------- *)
\* a reload that clears col.service before it closes the provider
ReloadCloseClearsService ==
  /\ Alive
  /\ pc["watch"] = "reload"
  /\ reloadCalls' = reloadCalls + 1
  /\ IF closeable
     THEN \E ok \in BOOLEAN :
            IF ok
            THEN Goto("watch", "retire") /\ UNCHANGED <<reloadErr, service>>
            ELSE /\ Goto("watch", "reloadFailed")
                 /\ reloadErr' = <<"failed close current config provider">>
                 /\ service' = NilService
     ELSE Goto("watch", "retire") /\ UNCHANGED <<reloadErr, service>>
  /\ UNCHANGED <<chanVars, newSvc, retiring, callee, status, sdCalls, sdRets,
                 prior, nextId, nilCall, provVars, asyncVars, sigVars, stopVars,
                 trigVars, seqVars, retval>>
  /\ UNCHANGED <<setupGhost, telemetry, sentinelRets, otherRets>>

\* if closeable { closeable.Close(ctx) }: an error ends the reload
ReloadClose ==
  /\ Alive
  /\ pc["watch"] = "reload"
  /\ reloadCalls' = reloadCalls + 1
  /\ IF closeable
     THEN \E ok \in BOOLEAN :
            IF ok
            THEN Goto("watch", "retire") /\ UNCHANGED reloadErr
            ELSE /\ Goto("watch", "reloadFailed")
                 /\ reloadErr' = <<"failed close current config provider">>
     ELSE Goto("watch", "retire") /\ UNCHANGED reloadErr
  /\ UNCHANGED <<chanVars, svcVars, provVars, asyncVars, sigVars, stopVars,
                 trigVars, seqVars, retval>>
  /\ UNCHANGED <<setupGhost, telemetry, sentinelRets, otherRets>>

\* a reload that clears the reference and loads the new configuration
\* without shutting the retiring instance down
ReloadRetireNoShutdown ==
  /\ Alive
  /\ pc["watch"] = "retire"
  /\ retiring' = service
  /\ service' = NilService
  /\ Goto("watch", "Get")
  /\ UNCHANGED <<chanVars, newSvc, callee, status, sdCalls, sdRets, prior,
                 nextId, nilCall, provVars, asyncVars, sigVars, stopVars,
                 trigVars, seqVars, retVars>>
  /\ ran' = [ran EXCEPT !["watch"] = <<>>]
  /\ UNCHANGED <<failedAt, telemetry, watchGhost>>

\* a reload that starts the new instance first and retires the old one after
ReloadRetireLate ==
  /\ Alive
  /\ pc["watch"] = "retire"
  /\ retiring' = service
  /\ UNCHANGED service
  /\ Goto("watch", "Get")
  /\ UNCHANGED <<chanVars, newSvc, callee, status, sdCalls, sdRets, prior,
                 nextId, nilCall, provVars, asyncVars, sigVars, stopVars,
                 trigVars, seqVars, retVars>>
  /\ ran' = [ran EXCEPT !["watch"] = <<>>]
  /\ UNCHANGED <<failedAt, telemetry, watchGhost>>

\* if col.service != nil { retiringService := col.service; col.service = nil
ReloadRetire ==
  /\ Alive
  /\ pc["watch"] = "retire"
  /\ IF service # NilService
     THEN /\ retiring' = service
          /\ service' = NilService
          /\ Goto("watch", "retireCall")
          /\ UNCHANGED ran
     ELSE /\ retiring' = NilService
          /\ UNCHANGED service
          /\ Goto("watch", "Get")
          /\ ran' = [ran EXCEPT !["watch"] = <<>>]
  /\ UNCHANGED <<chanVars, newSvc, callee, status, sdCalls, sdRets, prior,
                 nextId, nilCall, provVars, asyncVars, sigVars, stopVars,
                 trigVars, seqVars, retVars>>
  /\ UNCHANGED <<failedAt, telemetry, watchGhost>>

\* retiringService.Shutdown(ctx) is entered
RetireCall ==
  /\ Alive
  /\ pc["watch"] = "retireCall"
  /\ sdCalls' = [sdCalls EXCEPT ![retiring] = @ + 1]
  /\ Goto("watch", "retireRet")
  /\ UNCHANGED <<chanVars, service, newSvc, retiring, callee, status, sdRets,
                 prior, nextId, nilCall, provVars, asyncVars, sigVars, stopVars,
                 trigVars, seqVars, retVars>>
  /\ UNCHANGED <<setupGhost, telemetry, watchGhost>>

\* retiringService.Shutdown(ctx) returns: an error ends the reload, else
\* setupConfigurationComponents runs
RetireReturn ==
  /\ Alive
  /\ pc["watch"] = "retireRet"
  /\ sdRets' = [sdRets EXCEPT ![retiring] = @ + 1]
  /\ \E ok \in BOOLEAN :
       IF ok
       THEN /\ Goto("watch", "Get")
            /\ ran' = [ran EXCEPT !["watch"] = <<>>]
            /\ UNCHANGED reloadErr
       ELSE /\ Goto("watch", "reloadFailed")
            /\ reloadErr' = <<"failed to shutdown the retiring config">>
            /\ UNCHANGED ran
  /\ UNCHANGED <<chanVars, service, newSvc, retiring, callee, status, sdCalls,
                 prior, nextId, nilCall, provVars, asyncVars, sigVars, stopVars,
                 trigVars, seqVars, retval>>
  /\ UNCHANGED <<failedAt, telemetry, watchGhost>>

(* ------------------------- Shutdown (lines 173-182) -------------------- *)
\* close(ch) panics on a nil channel and on a closed channel
ClosePanics(ch) == ch # "open"

\* a Shutdown without the deferred recover
NoRecover == FALSE

\* the deferred function recovers the panic of close
Recovers == TRUE

\* Shutdown(): close(col.stopTestChan) under a deferred recover
Shutdown ==
  /\ Alive
  /\ stopCalls < MaxShutdownCalls
  /\ stopCalls' = stopCalls + 1
  /\ IF ClosePanics(stopTestChan)
     THEN /\ UNCHANGED <<stopTestChan, firstFired>>
          /\ stopEscaped' = (stopEscaped \/ ~Recovers)
     ELSE /\ stopTestChan' = "closed"
          /\ NoteFired("stop")
          /\ UNCHANGED stopEscaped
  /\ UNCHANGED <<pc, chanVars, svcVars, provVars, asyncVars, sigVars, trigger,
                 seqVars, retVars>>
  /\ UNCHANGED <<setupGhost, telemetry, watchGhost>>

(* ------------------------- the environment ----------------------------- *)
\* the OS delivers SIGINT/SIGTERM: signal.Notify's channel takes it if it
\* has room and drops it otherwise
OSSignal ==
  /\ Alive
  /\ signalsChannel # "nil"
  /\ sigCount < MaxSignals
  /\ sigCount' = sigCount + 1
  /\ signalsChannel' = "full"
  /\ NoteFired("signal")
  /\ UNCHANGED <<pc, chanVars, svcVars, provVars, asyncVars, stopVars, trigger,
                 seqVars, retVars>>
  /\ UNCHANGED <<setupGhost, telemetry, watchGhost>>

\* a component reports a fatal error: it blocks in its send on the
\* unbuffered channel until execute receives
AsyncErrorSend ==
  /\ Alive
  /\ asyncErrorChannel = "open"
  /\ asyncSends < MaxAsyncErrors
  /\ asyncSends' = asyncSends + 1
  /\ blockedSenders' = blockedSenders + 1
  /\ NoteFired("asyncError")
  /\ UNCHANGED <<pc, chanVars, svcVars, provVars, asyncErrorChannel,
                 asyncReceived, sigVars, stopVars, trigger, seqVars, retVars>>
  /\ UNCHANGED <<setupGhost, telemetry, watchGhost>>

(* ------------------------- the specification --------------------------- *)
Next ==
  \/ Execute
  \/ SetupTelemetry
  \/ \E p \in Procs : Get(p)
  \/ \E p \in Procs : Load(p)
  \/ \E p \in Procs : Validate(p)
  \/ \E p \in Procs : NewService(p)
  \/ \E p \in Procs : Start(p)
  \/ \E p \in Procs : Assign(p)
  \/ RunAndWait
  \/ PublishRunning
  \/ SelectAsyncError
  \/ SelectSignal
  \/ SelectStop
  \/ PublishClosing
  \/ CloseProvider
  \/ CheckService
  \/ CallShutdown
  \/ ShutdownReturn
  \/ NilShutdownOutcome
  \/ TelemetryShutdown
  \/ PublishClosed
  \/ CloseStateChannel
  \/ WatchReturn
  \/ ReloadClose
  \/ ReloadRetire
  \/ RetireCall
  \/ RetireReturn
  \/ Shutdown
  \/ OSSignal
  \/ AsyncErrorSend

Spec == Init /\ [][Next]_vars

\* the statements of the primary flow: execute and what it calls
MainNext ==
  \/ Execute \/ SetupTelemetry
  \/ Get("main") \/ Load("main") \/ Validate("main")
  \/ NewService("main") \/ Start("main") \/ Assign("main")
  \/ RunAndWait \/ PublishRunning
  \/ SelectAsyncError \/ SelectSignal \/ SelectStop
  \/ PublishClosing \/ CloseProvider \/ CheckService \/ CallShutdown
  \/ ShutdownReturn \/ NilShutdownOutcome \/ TelemetryShutdown
  \/ PublishClosed \/ CloseStateChannel

\* the goroutine running execute is scheduled whenever it can take a step,
\* and the calls it makes return; nothing is assumed of the environment
FairSpec == Spec /\ WF_vars(MainNext)

(* ------------------------- vocabulary of the properties ---------------- *)
FullStream == <<Starting, Running, Closing, Closed>>

Range(q) == {q[i] : i \in 1..Len(q)}

IsPrefix(q, r) == Len(q) <= Len(r) /\ \A i \in 1..Len(q) : q[i] = r[i]

Count(q, v) == Cardinality({i \in 1..Len(q) : q[i] = v})

NoRepeat(q) == \A i, j \in 1..Len(q) : q[i] = q[j] => i = j

\* started and not yet shut down
Live(i) == status[i] = "started" /\ sdRets[i] = 0

\* the source has fired in this run
Fired(src) ==
  CASE src = "asyncError" -> asyncSends > 0
    [] src = "signal" -> sigCount > 0
    [] src = "stop" -> stopTestChan = "closed"
    [] OTHER -> FALSE

\* positions of execute before the select has taken a case
BeforeTrigger == {"execute", "setupTelemetry", "Get", "Load", "Validate", "newService",
                  "Start", "assign", "runAndWait", "Running", "select", "setupFailed"}

\* positions of execute inside the shutdown sequence, in order
SequencePcs == <<"Closing", "Close", "checkService", "Shutdown", "ShutdownRet",
                 "telemetryShutdown", "Closed", "closeChannel">>

\* the steps of the shutdown sequence, in their order
StepOrder == <<"Close", "Shutdown", "telemetryShutdown">>

\* the next statement of the primary flow once a case of the select was taken
SequenceStep ==
  \/ PublishClosing \/ CloseProvider \/ CheckService \/ CallShutdown
  \/ ShutdownReturn \/ NilShutdownOutcome \/ TelemetryShutdown
  \/ PublishClosed \/ CloseStateChannel

SetupErrors == {"failed to initialize telemetry", "cannot load configuration's parser",
                "cannot load configuration", "invalid configuration",
                "newService failed", "service start failed"}

C2_SetupFailure ==
  /\ [](pc["main"] = "setupFailed" =>
          /\ published = <<Starting>>
          /\ stateChannel = <<Starting>>
          /\ stateClosed = 0
          /\ Len(retval) = 1 /\ retval[1] \in SetupErrors
          /\ trigger = "none")
  /\ [](retval # <<>> => pc["main"] \in {"setupFailed", "done"})
  /\ [][pc["main"] = "setupFailed" =>
          pc'["main"] = "setupFailed" /\ UNCHANGED <<published, stateClosed, retval>>]_vars

\* execute returned because the configuration failed validation
C2_Witness ==
  /\ pc["main"] = "setupFailed"
  /\ retval = <<"invalid configuration">>

(* ------------------------------ C3 ------------------------------------- *)
\* C3 as stated: the source that fired first is the one that moves the state
\* to Closing.
C3_FirstFiredIsTrigger == trigger # "none" => trigger = firstFired

\* C3 as amended: exactly one source, one that has fired, is taken as the
\* trigger; it moves the state to Closing once; the trigger never changes
\* afterwards, and a source firing after it changes neither the position of
\* the primary flow, nor what was published, nor the steps of the shutdown
\* sequence, and no panic leaves Shutdown.
C3_OneTrigger ==
  /\ [](/\ trigger # "none" => Fired(trigger) /\ pc["main"] \notin BeforeTrigger
        /\ trigger = "none" => pc["main"] \in BeforeTrigger /\ Count(published, Closing) = 0
        /\ Count(published, Closing) <= 1
        /\ Count(published, Closing) = 1 <=>
             pc["main"] \in (Range(SequencePcs) \ {"Closing"}) \cup {"done", "panicked"}
        /\ NoRepeat(seqSteps)
        /\ ~stopEscaped)
  /\ [][trigger # "none" => trigger' = trigger]_vars
  /\ [][(trigger # "none" /\
          (stopCalls' # stopCalls \/ sigCount' # sigCount \/ asyncSends' # asyncSends))
        => UNCHANGED <<pc, chanVars, seqVars, retval, trigger>>]_vars

\* the wait took one source and the two others fired as well
C3_Witness ==
  /\ trigger = "signal"
  /\ stopTestChan = "closed"
  /\ blockedSenders > 0
  /\ pc["main"] = "done"

(* ------------------------------ C4 ------------------------------------- *)
\* C4: an instance that a reload has started differs from the instance the
\* reload retired, and Shutdown of the retired instance had returned before
\* Start of the new one was invoked; after a successful reload col.service is
\* the new instance.
C4_RetireBeforeStart ==
  /\ \A i \in Instances :
       (status[i] \in {"started", "startFailed"} /\ prior[i] # NilService) =>
         /\ prior[i] # i
         /\ sdCalls[prior[i]] >= 1
         /\ sdRets[prior[i]] >= 1
  /\ (service # NilService /\ prior[service] # NilService) =>
       /\ service # prior[service]
       /\ status[service] = "started"
  /\ (pc["watch"] = "WatchForUpdate" /\ retiring # NilService) =>
       service # NilService /\ prior[service] = retiring

\* a reload has succeeded: col.service is an instance built by a reload
C4_Witness ==
  /\ service # NilService
  /\ prior[service] # NilService
  /\ status[service] = "started"
  /\ pc["watch"] = "WatchForUpdate"

(* ------------------------------ C5 ------------------------------------- *)
\* C5: at most one instance is live (started and not yet shut down) in every
\* state, over all interleavings of execute with the reload; an instance is
\* constructed by a reload only when the retired one is no longer referenced
\* by col.service and its Shutdown has returned.
C5_AtMostOneLive ==
  /\ Cardinality({i \in Instances : Live(i)}) <= 1
  /\ \A i \in Instances :
       (status[i] # "none" /\ prior[i] # NilService) =>
         /\ ~Live(prior[i])
         /\ service # prior[i]

\* the new instance runs while execute is inside its shutdown sequence
C5_Witness ==
  /\ \E i \in Instances : Live(i) /\ prior[i] # NilService
  /\ pc["main"] \in Range(SequencePcs)

(* ------------------------------ C6 ------------------------------------- *)
\* the position of a shutdown-sequence location in SequencePcs, 9 for done
Rank(loc) ==
  IF loc = "done" THEN Len(SequencePcs) + 1
  ELSE CHOOSE k \in 1..Len(SequencePcs) : SequencePcs[k] = loc

\* the error execute records for a failed step
StepError(st) ==
  CASE st = "Close" -> "failed to close config"
    [] st = "Shutdown" -> "failed to shutdown service"
    [] OTHER -> "failed to shutdown application telemetry"

\* the steps the sequence has to have invoked once the flow is at loc
StepsDue(loc) ==
  SelectSeq(StepOrder,
    LAMBDA st :
      CASE st = "Close" -> closeable /\ Rank(loc) > Rank("Close")
        [] st = "Shutdown" -> sawService /\ Rank(loc) > Rank("Shutdown")
        [] OTHER -> Rank(loc) > Rank("telemetryShutdown"))

C7_Aggregate ==
  /\ pc["main"] = "done" =>
       /\ Range(retval) = failedSteps
       /\ Len(retval) = Cardinality(failedSteps)
       /\ (retval = <<>>) <=> (failedSteps = {})
  /\ pc["main"] \in Range(SequencePcs) =>
       /\ Range(errs) = failedSteps
       /\ NoRepeat(errs)

\* provider Close and service Shutdown failed and both are reported
C7_Witness ==
  /\ pc["main"] = "done"
  /\ retval = <<"failed to close config", "failed to shutdown service">>

(* ------------------------------ C8 ------------------------------------- *)
\* C8 as stated: col.service is non-nil only while the instance it refers to
\* is live (started, and no Shutdown of it has returned).
C8_ServiceLiveOrNil == service # NilService => Live(service)

(* ------------------------------ C9 ------------------------------------- *)
\* C9: what has been published on the state channel is always a prefix of
\* Starting, Running, Closing, Closed, so no value is published twice; the
\* channel is closed at most once and only after Closed was sent.
C9_MonotonicStream ==
  /\ IsPrefix(published, FullStream)
  /\ NoRepeat(published)
  /\ stateClosed <= 1
  /\ stateClosed = 1 => Count(published, Closed) = 1

\* the channel has been closed
C9_Witness == stateClosed = 1 /\ published = FullStream

(* ------------------------------ C10 ------------------------------------ *)
\* C10: however many times Shutdown() is called, no panic leaves it, Closing
\* is published at most once and no step of the shutdown sequence runs twice;
\* a call made when the stop channel is already closed changes nothing but
\* the number of calls, and the stop channel, once closed, stays closed.
C10_ShutdownIdempotent ==
  /\ [](/\ ~stopEscaped
        /\ Count(published, Closing) <= 1
        /\ NoRepeat(seqSteps)
        /\ stateClosed <= 1)
  /\ [][stopTestChan = "closed" => stopTestChan' = "closed"]_vars
  /\ [][(stopCalls' # stopCalls /\ stopTestChan = "closed") =>
          UNCHANGED <<pc, chanVars, svcVars, provVars, asyncVars, sigVars,
                      stopTestChan, stopEscaped, trigVars, seqVars, retVars>>]_vars

\* Shutdown() was called twice and the run ended with one shutdown sequence
C10_Witness ==
  /\ stopCalls = 2
  /\ trigger = "stop"
  /\ pc["main"] = "done"
  /\ published = FullStream

(* ------------------------------ C11 ------------------------------------ *)
\* reloadService returned because the new configuration failed validation
ReloadInvalid ==
  /\ pc["watch"] = "reloadFailed"
  /\ reloadErr = <<"failed to setup configuration components", "invalid configuration">>

\* C11: when the configuration loaded by a reload is invalid, reloadService
\* returns an error, the reload has built and started no instance, no
\* instance is live and col.service is nil; this stays so, as the failed
\* reload leaves no watch goroutine behind that could start another reload.
C11_InvalidReload ==
  /\ [](ReloadInvalid =>
          /\ service = NilService
          /\ retiring # NilService /\ sdRets[retiring] >= 1
          /\ \A i \in Instances : ~Live(i)
          /\ \A i \in Instances : status[i] # "none" => prior[i] # retiring
          /\ failedAt["watch"] = "Validate")
  /\ [][ReloadInvalid =>
          /\ ReloadInvalid'
          /\ service' = NilService
          /\ UNCHANGED <<status, nextId, reloadCalls>>]_vars

\* a reload has failed on an invalid configuration while execute waits
C11_Witness == ReloadInvalid /\ pc["main"] = "select" /\ sdRets[1] = 1

(* ------------------------------ C12 ------------------------------------ *)
\* C12: each return of WatchForUpdate that is not the session-closed
\* condition is followed by exactly one call of reloadService, and a return
\* that is the session-closed condition by none: on it the goroutine ends
\* for good and nothing of the service instances changes.
C12_ReloadIffNotSentinel ==
  /\ [](/\ reloadCalls + (IF pc["watch"] = "reload" THEN 1 ELSE 0) = otherRets
        /\ sentinelRets <= 1
        /\ sentinelRets = 1 <=> pc["watch"] = "exited")
  /\ [][sentinelRets' # sentinelRets =>
          /\ pc'["watch"] = "exited"
          /\ UNCHANGED <<svcVars, reloadCalls, otherRets>>]_vars
  /\ [][otherRets' # otherRets =>
          /\ pc'["watch"] = "reload"
          /\ UNCHANGED <<svcVars, sentinelRets>>]_vars
  /\ [][pc["watch"] = "exited" =>
          pc'["watch"] = "exited" /\ reloadCalls' = reloadCalls /\ service' = service]_vars

\* one return led to a reload, the next was the sentinel and ended the task
C12_Witness ==
  /\ otherRets = 1
  /\ reloadCalls = 1
  /\ sentinelRets = 1
  /\ pc["watch"] = "exited"

(* ------------------------------ C13 ------------------------------------ *)
\* reloadService returned because the provider's Close failed
ReloadCloseFailed ==
  /\ pc["watch"] = "reloadFailed"
  /\ reloadErr = <<"failed close current config provider">>

\* C13: when Close of a Closeable provider fails at the start of a reload,
\* the reload ends with that error and has changed nothing: col.service is
\* the instance it was, the reload has not invoked Shutdown on it (only
\* execute's shutdown sequence may have), no configuration was loaded and no
\* instance built or started by it.
C13_CloseFailureAbortsReload ==
  /\ [](ReloadCloseFailed =>
          /\ closeable
          /\ service # NilService
          /\ status[service] = "started"
          /\ retiring # service
          /\ sdCalls[service] <= 1
          /\ sdCalls[service] = 1 => (callee = service /\ trigger # "none")
          /\ sdCalls[service] = 0 => Live(service)
          /\ \A i \in Instances : status[i] # "none" => prior[i] # service)
  /\ [][(pc["watch"] = "reload" /\ pc'["watch"] = "reloadFailed") =>
          UNCHANGED <<svcVars, setupGhost>>]_vars
  /\ [][ReloadCloseFailed =>
          /\ ReloadCloseFailed'
          /\ UNCHANGED <<service, status, nextId, newSvc, retiring, ran, failedAt>>]_vars

\* the reload was aborted by Close and the old instance keeps running
C13_Witness ==
  /\ ReloadCloseFailed
  /\ Live(service)
  /\ pc["main"] = "select"

(* ------------------------------ C14 ------------------------------------ *)
\* the steps of setupConfigurationComponents, in order
SetupOrder == <<"Get", "Load", "Validate", "newService", "Start">>

\* the error setupConfigurationComponents returns when a step fails
SetupStepError(st) ==
  CASE st = "Get" -> "cannot load configuration's parser"
    [] st = "Load" -> "cannot load configuration"
    [] st = "Validate" -> "invalid configuration"
    [] st = "newService" -> "newService failed"
    [] OTHER -> "service start failed"

\* C14: setupConfigurationComponents invokes its steps in order and stops at
\* the first that fails: the failed step is the last one invoked, the flow is
\* at its return with that step's error, col.service is what it was (nil)
\* and no watch goroutine was spawned; col.service only ever refers to an
\* instance whose Start succeeded, and a watch goroutine exists only after
\* such a Start.
C14_StopAtFirstFailure ==
  /\ \A p \in Procs :
       /\ IsPrefix(ran[p], SetupOrder)
       /\ \A k \in 1..Len(SetupOrder) : pc[p] = SetupOrder[k] => Len(ran[p]) = k - 1
       /\ failedAt[p] # "" =>
            /\ ran[p] # <<>> /\ ran[p][Len(ran[p])] = failedAt[p]
            /\ service = NilService
            /\ failedAt[p] = "Start" => status[newSvc[p]] = "startFailed"
  /\ failedAt["main"] # "" =>
       /\ pc["main"] = "setupFailed"
       /\ retval = <<SetupStepError(failedAt["main"])>>
       /\ pc["watch"] = "none"
  /\ failedAt["watch"] # "" =>
       /\ pc["watch"] = "reloadFailed"
       /\ reloadErr = <<"failed to setup configuration components",
                        SetupStepError(failedAt["watch"])>>
  /\ service # NilService => status[service] = "started"
  /\ pc["watch"] # "none" => watchable /\ status[1] = "started"
  /\ \A i \in Instances :
       status[i] = "startFailed" => service # i /\ sdCalls[i] = 0

\* the initial configuration failed validation: Get, Load and Validate ran
C14_Witness ==
  /\ failedAt["main"] = "Validate"
  /\ ran["main"] = <<"Get", "Load", "Validate">>
  /\ watchable

(* ------------------------------ C15 ------------------------------------ *)
\* C15: at most one value is ever received from the async error channel, and
\* only by the select; once the select has taken a case nothing is received
\* any more, so every sender that reports afterwards, and every other sender
\* that was waiting, stays blocked.
C15_OneAsyncError ==
  /\ [](/\ asyncReceived <= 1
        /\ asyncReceived = 1 <=> trigger = "asyncError"
        /\ blockedSenders + asyncReceived = asyncSends)
  /\ [][asyncReceived' # asyncReceived => pc["main"] = "select" /\ trigger = "none"]_vars
  /\ [][trigger # "none" =>
          asyncReceived' = asyncReceived /\ blockedSenders' >= blockedSenders]_vars

\* one error was consumed and a second sender is still blocked at the end
C15_Witness ==
  /\ asyncReceived = 1
  /\ blockedSenders = 1
  /\ pc["main"] = "done"

(* ------------------------------ C16 ------------------------------------ *)
\* execute returned a configuration setup error (telemetry was initialised)
ConfigSetupFailed ==
  /\ retval # <<>>
  /\ retval[1] \in SetupErrors \ {"failed to initialize telemetry"}

\* C16: when configuration fetch, parse, validation, service construction or
\* service start fails, execute returns with telemetry still initialised and
\* without having invoked provider Close, service Shutdown, telemetry
\* shutdown or the close of the state channel, and invokes none afterwards.
C16_NoTeardownOnSetupError ==
  /\ [](ConfigSetupFailed =>
          /\ pc["main"] = "setupFailed"
          /\ telemetry = "on"
          /\ seqSteps = <<>> /\ errs = <<>> /\ failedSteps = {}
          /\ stateClosed = 0
          /\ \A i \in Instances : sdCalls[i] = 0)
  /\ [][pc["main"] = "setupFailed" =>
          UNCHANGED <<seqVars, telemetry, stateClosed, sdCalls>>]_vars

\* service start failed with a Closeable provider and telemetry running
C16_Witness ==
  /\ pc["main"] = "setupFailed"
  /\ retval = <<"service start failed">>
  /\ telemetry = "on"
  /\ closeable

(* ------------------------------ C17 ------------------------------------ *)
\* C17 as stated: once Closed has been published no instance is live, in
\* that state and in every later one.
C17_NoLiveAfterClosed ==
  Count(published, Closed) = 1 => \A i \in Instances : ~Live(i)

(* ------------------------------ C18 ------------------------------------ *)
\* C18 as stated: Shutdown is invoked at most once on every instance and
\* never through a nil col.service.
C18_ShutdownOnceNeverNil ==
  /\ ~nilCall
  /\ \A i \in Instances : sdCalls[i] <= 1

(* ------------------------------ C19 ------------------------------------ *)
\* C19 as stated: after a call of Shutdown() made at any moment of the run,
\* Closed is eventually published, unless setup fails (or the flow faults).
C19_ShutdownLeadsToClosed ==
  [](stopCalls > 0 =>
       <>(Count(published, Closed) = 1 \/ pc["main"] \in {"setupFailed", "panicked"}))

(* ------------------------------ C20 ------------------------------------ *)
\* C20: with nobody receiving from the state channel, the values buffered
\* in it never exceed its capacity of Closed+1 = 4 and every send of execute
\* finds room: the flow is never blocked at a publication, and at the return
\* all four values sit in the buffer.
C20_PublishNeverBlocks ==
  /\ stateChannel = published
  /\ Len(stateChannel) <= StateChannelCap
  /\ StateChannelCap = 4
  /\ pc["main"] \in {"execute", "Running", "Closing", "Closed"} => CanSend(stateChannel)
  /\ pc["main"] = "Closed" => ENABLED PublishClosed
  /\ pc["main"] = "done" => Len(stateChannel) = StateChannelCap

\* the run has ended with the buffer full and never read
C20_Witness ==
  /\ pc["main"] = "done"
  /\ Len(stateChannel) = 4

====
